---- MODULE Spec2Model ----
(***************************************************************************)
(* open-encrypto-object: src/src/index.js.                                 *)
(*                                                                         *)
(* A JavaScript string is a sequence of UTF-16 code units (integers), a    *)
(* Buffer is a sequence of bytes (0..255).  JavaScript values are tagged   *)
(* records, see the section "Values".  The property names of an object are *)
(* ordinary names: an own property named "__proto__", which the assignment *)
(* of index.js 122 and 224 would not create as an own key, is not among    *)
(* the inputs.                                                             *)
(***************************************************************************)
EXTENDS Integers, Sequences, FiniteSets

(***************************************************************************)
(* Bounds of the model.                                                    *)
(***************************************************************************)
\* Array inputs hold at most this many elements.
MaxArrayLen == 2
\* Bit positions 0..MaxFlipBit of a wire-string character may be flipped.
MaxFlipBit == 6

(***************************************************************************)
(* Configuration, index.js 18-22.                                          *)
(***************************************************************************)
KEY_LENGTH_BYTES == 32
IV_LENGTH_BYTES == 16
\* The tag cipher.getAuthTag() returns for aes-256-gcm: 16 bytes.
AUTH_TAG_BYTES == 16

(***************************************************************************)
(* Generic helpers.                                                        *)
(***************************************************************************)
Min(a, b) == IF a < b THEN a ELSE b

\* The function f on 1..n as a sequence of its values.
SeqOf(f) == <<>> \o f

Rep(x, n) == SeqOf([i \in 1..n |-> x])

RECURSIVE Concat(_)
\* The concatenation of a sequence of sequences.
Concat(ss) == IF ss = <<>> THEN <<>> ELSE Head(ss) \o Concat(Tail(ss))

RECURSIVE Pow2(_)
Pow2(n) == IF n = 0 THEN 1 ELSE 2 * Pow2(n - 1)

Bit(x, b) == (x \div Pow2(b)) % 2

\* x with bit b inverted.
FlipBit(x, b) == IF Bit(x, b) = 1 THEN x - Pow2(b) ELSE x + Pow2(b)

RECURSIVE XorBits(_, _, _)
XorBits(a, b, n) ==
  IF n = 0 THEN 0
  ELSE (((a % 2) + (b % 2)) % 2) + 2 * XorBits(a \div 2, b \div 2, n - 1)

\* Bitwise exclusive or of two bytes.
Xor(a, b) == XorBits(a, b, 8)

\* The positions of character c in string s.
IndexesOf(s, c) == {i \in 1..Len(s) : s[i] = c}

(***************************************************************************)
(* Characters.                                                             *)
(***************************************************************************)
IsUpper(c) == c >= 65 /\ c <= 90
IsLower(c) == c >= 97 /\ c <= 122
IsDigit(c) == c >= 48 /\ c <= 57
\* '.', the delimiter of index.js 84 and 143-147.
DOT == 46
\* '=', the base64 padding character.
PAD == 61

(***************************************************************************)
(* Buffer.from(str, 'hex'), index.js 43 and 48: pairs of hex digits are    *)
(* decoded until the first pair that is not two hex digits; a trailing     *)
(* single character is dropped.  Nothing is thrown.                        *)
(***************************************************************************)
IsHexDigit(c) == IsDigit(c) \/ (c >= 97 /\ c <= 102) \/ (c >= 65 /\ c <= 70)

Unhex(c) == IF IsDigit(c) THEN c - 48 ELSE IF c >= 97 THEN c - 87 ELSE c - 55

RECURSIVE HexDecodeFrom(_, _)
HexDecodeFrom(s, i) ==
  IF i + 1 > Len(s) THEN <<>>
  ELSE IF ~(IsHexDigit(s[i]) /\ IsHexDigit(s[i + 1])) THEN <<>>
  ELSE <<16 * Unhex(s[i]) + Unhex(s[i + 1])>> \o HexDecodeFrom(s, i + 2)

HexDecode(s) == HexDecodeFrom(s, 1)

(***************************************************************************)
(* buf.toString('base64') and the 'base64' output encoding of the cipher,  *)
(* index.js 79-84: the standard alphabet with '=' padding.                 *)
(***************************************************************************)
B64Char(v) ==
  IF v < 26 THEN 65 + v
  ELSE IF v < 52 THEN 97 + (v - 26)
  ELSE IF v < 62 THEN 48 + (v - 52)
  ELSE IF v = 62 THEN 43 ELSE 47

RECURSIVE Base64EncodeFrom(_, _)
Base64EncodeFrom(b, i) ==
  LET n == Len(b) - i + 1 IN
  IF n <= 0 THEN <<>>
  ELSE IF n = 1 THEN
    <<B64Char(b[i] \div 4), B64Char((b[i] % 4) * 16), PAD, PAD>>
  ELSE IF n = 2 THEN
    <<B64Char(b[i] \div 4), B64Char(((b[i] % 4) * 16) + (b[i + 1] \div 16)),
      B64Char((b[i + 1] % 16) * 4), PAD>>
  ELSE
    <<B64Char(b[i] \div 4), B64Char(((b[i] % 4) * 16) + (b[i + 1] \div 16)),
      B64Char(((b[i + 1] % 16) * 4) + (b[i + 2] \div 64)), B64Char(b[i + 2] % 64)>>
    \o Base64EncodeFrom(b, i + 3)

Base64Encode(b) == Base64EncodeFrom(b, 1)

(***************************************************************************)
(* Buffer.from(str, 'base64') and the 'base64' input encoding of the       *)
(* decipher, index.js 157 and 163.  Node's decoder accepts the standard    *)
(* and the URL-safe alphabet, skips every other character, stops at the    *)
(* first '=' and never throws; a trailing group of 2 or 3 characters gives *)
(* 1 or 2 bytes, of 1 character none.                                      *)
(***************************************************************************)
IsB64Char(c) ==
  IsUpper(c) \/ IsLower(c) \/ IsDigit(c) \/ c \in {43, 47, 45, 95}

Unbase64(c) ==
  IF IsUpper(c) THEN c - 65
  ELSE IF IsLower(c) THEN c - 71
  ELSE IF IsDigit(c) THEN c + 4
  ELSE IF c \in {43, 45} THEN 62 ELSE 63

RECURSIVE Sextets(_, _)
\* The 6-bit values of the legal characters of s from position i on, up to
\* the first '='.
Sextets(s, i) ==
  IF i > Len(s) \/ s[i] = PAD THEN <<>>
  ELSE IF IsB64Char(s[i]) THEN <<Unbase64(s[i])>> \o Sextets(s, i + 1)
  ELSE Sextets(s, i + 1)

RECURSIVE SextetsToBytes(_, _)
SextetsToBytes(v, i) ==
  LET n == Len(v) - i + 1 IN
  IF n <= 1 THEN <<>>
  ELSE IF n = 2 THEN <<(v[i] * 4) + (v[i + 1] \div 16)>>
  ELSE IF n = 3 THEN
    <<(v[i] * 4) + (v[i + 1] \div 16), ((v[i + 1] % 16) * 16) + (v[i + 2] \div 4)>>
  ELSE
    <<(v[i] * 4) + (v[i + 1] \div 16), ((v[i + 1] % 16) * 16) + (v[i + 2] \div 4),
      ((v[i + 2] % 4) * 64) + v[i + 3]>>
    \o SextetsToBytes(v, i + 4)

Base64Decode(s) == SextetsToBytes(Sextets(s, 1), 1)

\* A string an encoder can have produced: groups of four characters of the
\* standard alphabet, the last one padded with '=' to a multiple of four.
IsCanonicalBase64(s) == s = Base64Encode(Base64Decode(s))

(***************************************************************************)
(* The 'utf8' input encoding of cipher.update, index.js 79, and the 'utf8' *)
(* output encoding of decipher.update/final, index.js 163-164.  A lone     *)
(* surrogate is encoded as U+FFFD; the strings of the model hold no        *)
(* surrogate pair.                                                         *)
(***************************************************************************)
IsSurrogate(c) == c >= 55296 /\ c <= 57343

Utf8EncodeChar(c) ==
  IF c < 128 THEN <<c>>
  ELSE IF c < 2048 THEN <<192 + (c \div 64), 128 + (c % 64)>>
  ELSE IF IsSurrogate(c) THEN <<239, 191, 189>>
  ELSE <<224 + (c \div 4096), 128 + ((c \div 64) % 64), 128 + (c % 64)>>

Utf8Encode(s) == Concat(SeqOf([i \in 1..Len(s) |-> Utf8EncodeChar(s[i])]))

RECURSIVE Utf8DecodeFrom(_, _)
\* Bytes that are not the start of a well-formed sequence decode to U+FFFD.
Utf8DecodeFrom(b, i) ==
  IF i > Len(b) THEN <<>>
  ELSE IF b[i] < 128 THEN <<b[i]>> \o Utf8DecodeFrom(b, i + 1)
  ELSE IF b[i] >= 194 /\ b[i] < 224 /\ i + 1 <= Len(b)
          /\ (b[i + 1] \div 64) = 2 THEN
    <<(b[i] - 192) * 64 + (b[i + 1] - 128)>> \o Utf8DecodeFrom(b, i + 2)
  ELSE IF b[i] >= 224 /\ b[i] < 240 /\ i + 2 <= Len(b)
          /\ (b[i + 1] \div 64) = 2 /\ (b[i + 2] \div 64) = 2
          /\ (b[i] - 224) * 4096 + (b[i + 1] - 128) * 64 >= 2048 THEN
    <<(b[i] - 224) * 4096 + (b[i + 1] - 128) * 64 + (b[i + 2] - 128)>>
    \o Utf8DecodeFrom(b, i + 3)
  ELSE <<65533>> \o Utf8DecodeFrom(b, i + 1)

Utf8Decode(b) == Utf8DecodeFrom(b, 1)

(***************************************************************************)
(* Values.  A JavaScript value is a record tagged by t:                    *)
(*   null, undefined, boolean (b), string (s: code units), number,         *)
(*   array (a: sequence of values), object (o: sequence of <<key, value>>  *)
(*   in own-property enumeration order, the keys ordinary property names), *)
(*   buffer (bytes), and throw (msg: the message) for a thrown Error.      *)
(* A number is finite (m * 10^e, with e <= 0 and m not a multiple of 10    *)
(* unless e = 0), -0, NaN, Infinity or -Infinity.                          *)
(***************************************************************************)
Null == [t |-> "null"]
Undefined == [t |-> "undefined"]
Bool(b) == [t |-> "boolean", b |-> b]
Str(s) == [t |-> "string", s |-> s]
Arr(xs) == [t |-> "array", a |-> xs]
Obj(ps) == [t |-> "object", o |-> ps]
Buffer(b) == [t |-> "buffer", bytes |-> b]
Throw(msg) == [t |-> "throw", msg |-> msg]
Num(k, m, e) == [t |-> "number", k |-> k, m |-> m, e |-> e]
Integer(n) == Num("finite", n, 0)
NaN == Num("nan", 0, 0)
NegZero == Num("negzero", 0, 0)
Infinity == Num("inf", 0, 0)
NegInfinity == Num("neginf", 0, 0)

IsThrow(x) == x.t = "throw"
IsContainer(x) == x.t \in {"array", "object"}

(***************************************************************************)
(* String(value), index.js 75.                                             *)
(***************************************************************************)
RECURSIVE DigitsOf(_)
\* The decimal digits of a natural number.
DigitsOf(n) ==
  IF n < 10 THEN <<48 + n>> ELSE DigitsOf(n \div 10) \o <<48 + (n % 10)>>

\* Number::toString of a finite number m * 10^e, for 1e-6 <= |x| < 1e21.
FiniteToString(m, e) ==
  LET a == IF m < 0 THEN -m ELSE m
      d == DigitsOf(a)
      k == -e
      padded == IF Len(d) > k THEN d ELSE Rep(48, k + 1 - Len(d)) \o d
      ip == SubSeq(padded, 1, Len(padded) - k)
      fp == SubSeq(padded, Len(padded) - k + 1, Len(padded))
  IN (IF m < 0 THEN <<45>> ELSE <<>>) \o ip
     \o (IF k > 0 THEN <<DOT>> \o fp ELSE <<>>)

STR_null == <<110, 117, 108, 108>>
STR_undefined == <<117, 110, 100, 101, 102, 105, 110, 101, 100>>
STR_true == <<116, 114, 117, 101>>
STR_false == <<102, 97, 108, 115, 101>>
STR_NaN == <<78, 97, 78>>
STR_Infinity == <<73, 110, 102, 105, 110, 105, 116, 121>>

NumberToString(n) ==
  CASE n.k = "nan" -> STR_NaN
    [] n.k = "inf" -> STR_Infinity
    [] n.k = "neginf" -> <<45>> \o STR_Infinity
    [] n.k = "negzero" -> <<48>>
    [] OTHER -> FiniteToString(n.m, n.e)

StringOf(value) ==
  CASE value.t = "null" -> STR_null
    [] value.t = "undefined" -> STR_undefined
    [] value.t = "boolean" -> IF value.b THEN STR_true ELSE STR_false
    [] value.t = "number" -> NumberToString(value)
    [] OTHER -> value.s

(***************************************************************************)
(* isNaN(str), parseFloat(str), str.trim() and Number(str), index.js       *)
(* 171-174.                                                                *)
(***************************************************************************)
\* WhiteSpace and LineTerminator of ECMAScript.
IsWhiteSpace(c) ==
  \/ c \in {9, 10, 11, 12, 13, 32, 160, 5760, 8232, 8233, 8239, 8287, 12288, 65279}
  \/ (c >= 8192 /\ c <= 8202)

RECURSIVE TrimStart(_)
TrimStart(s) ==
  IF s # <<>> /\ IsWhiteSpace(Head(s)) THEN TrimStart(Tail(s)) ELSE s

RECURSIVE TrimEnd(_)
TrimEnd(s) ==
  IF s # <<>> /\ IsWhiteSpace(s[Len(s)])
  THEN TrimEnd(SubSeq(s, 1, Len(s) - 1)) ELSE s

Trim(s) == TrimEnd(TrimStart(s))

RECURSIVE DigitsEnd(_, _)
\* The first position from i on that holds no decimal digit.
DigitsEnd(s, i) ==
  IF i <= Len(s) /\ IsDigit(s[i]) THEN DigitsEnd(s, i + 1) ELSE i

RECURSIVE DigitsValue(_)
DigitsValue(d) ==
  IF d = <<>> THEN 0
  ELSE 10 * DigitsValue(SubSeq(d, 1, Len(d) - 1)) + (d[Len(d)] - 48)

RECURSIVE Pow10(_)
Pow10(n) == IF n = 0 THEN 1 ELSE 10 * Pow10(n - 1)

RECURSIVE Normalize(_, _)
\* The finite number m * 10^e in the representation of the model.
Normalize(m, e) ==
  IF m = 0 THEN Integer(0)
  ELSE IF e > 0 THEN Integer(m * Pow10(e))
  ELSE IF e < 0 /\ m % 10 = 0 THEN Normalize(m \div 10, e + 1)
  ELSE Num("finite", m, e)

IsRadixDigit(c, radix) ==
  IF radix = 16 THEN IsHexDigit(c) ELSE IsDigit(c) /\ c - 48 < radix

RECURSIVE RadixValue(_, _)
RadixValue(d, radix) ==
  IF d = <<>> THEN 0
  ELSE radix * RadixValue(SubSeq(d, 1, Len(d) - 1), radix) + Unhex(d[Len(d)])

\* The radix of a NonDecimalIntegerLiteral prefix 0x, 0o, 0b, or 0.
RadixOf(s) ==
  IF Len(s) >= 2 /\ s[1] = 48 THEN
    CASE s[2] \in {120, 88} -> 16
      [] s[2] \in {111, 79} -> 8
      [] s[2] \in {98, 66} -> 2
      [] OTHER -> 0
  ELSE 0

\* StrDecimalLiteral, the whole of s: the number, or NaN.
DecimalLiteral(s) ==
  LET hasSign == s # <<>> /\ s[1] \in {43, 45}
      neg == hasSign /\ s[1] = 45
      p == IF hasSign THEN 2 ELSE 1
      a == DigitsEnd(s, p)
      hasDot == a <= Len(s) /\ s[a] = DOT
      b == IF hasDot THEN DigitsEnd(s, a + 1) ELSE a
      ip == SubSeq(s, p, a - 1)
      fp == IF hasDot THEN SubSeq(s, a + 1, b - 1) ELSE <<>>
      hasExp == b <= Len(s) /\ s[b] \in {101, 69}
      expSigned == hasExp /\ b + 1 <= Len(s) /\ s[b + 1] \in {43, 45}
      c == IF expSigned THEN b + 2 ELSE b + 1
      d == IF hasExp THEN DigitsEnd(s, c) ELSE b
      ex == IF hasExp THEN DigitsValue(SubSeq(s, c, d - 1)) ELSE 0
      exv == IF expSigned /\ s[b + 1] = 45 THEN -ex ELSE ex
      mant == DigitsValue(ip \o fp)
  IN IF SubSeq(s, p, Len(s)) = STR_Infinity
     THEN (IF neg THEN NegInfinity ELSE Infinity)
     ELSE IF Len(ip) + Len(fp) = 0 \/ (hasExp /\ d = c) \/ d # Len(s) + 1
     THEN NaN
     ELSE IF mant = 0 THEN (IF neg THEN NegZero ELSE Integer(0))
     ELSE Normalize(IF neg THEN -mant ELSE mant, exv - Len(fp))

\* Number(str): StringToNumber.
StringToNumber(str) ==
  LET s == Trim(str)
      radix == RadixOf(s)
      ds == SubSeq(s, 3, Len(s))
  IN IF s = <<>> THEN Integer(0)
     ELSE IF radix # 0 THEN
       (IF ds # <<>> /\ \A i \in 1..Len(ds) : IsRadixDigit(ds[i], radix)
        THEN Integer(RadixValue(ds, radix)) ELSE NaN)
     ELSE DecimalLiteral(s)

\* isNaN(value) of a string: Number(value) is NaN.
IsNaNString(str) == StringToNumber(str) = NaN

\* isNaN(parseFloat(str)): no prefix of the string, leading white space
\* dropped, is a StrDecimalLiteral.
ParseFloatIsNaN(str) ==
  LET s == TrimStart(str)
      p == IF s # <<>> /\ s[1] \in {43, 45} THEN 2 ELSE 1
      r == SubSeq(s, p, Len(s))
  IN ~ \/ (Len(r) >= 8 /\ SubSeq(r, 1, 8) = STR_Infinity)
       \/ (Len(r) >= 1 /\ IsDigit(r[1]))
       \/ (Len(r) >= 2 /\ r[1] = DOT /\ IsDigit(r[2]))

(***************************************************************************)
(* crypto.createCipheriv / createDecipheriv with 'aes-256-gcm', index.js   *)
(* 78-81 and 158-164, as an ideal authenticated cipher: the ciphertext is  *)
(* the plaintext xor a key stream that the key and the IV determine (GCM   *)
(* is a counter mode, so the ciphertext is as long as the plaintext), and  *)
(* the 16-byte tag is a collision-free function of key, IV and ciphertext  *)
(* for the ciphertexts of the model (at most 13 bytes).                    *)
(***************************************************************************)
RECURSIVE WeightedSum(_, _)
WeightedSum(b, i) ==
  IF i > Len(b) THEN 0 ELSE (2 * i + 1) * b[i] + WeightedSum(b, i + 1)

Digest(b) == WeightedSum(b, 1) % 256

\* Byte i of the key stream, from the digests of the key and of the IV.
KeystreamByte(k, v, i) == (k + 3 * v + 29 * i + 17) % 256

\* A cipher whose output does not depend on the text.
GcmCryptBlind(key, iv, text) == Rep(Digest(key), Len(text))

GcmCrypt(key, iv, text) ==
  LET k == Digest(key)
      v == Digest(iv)
  IN SeqOf([i \in 1..Len(text) |-> Xor(text[i], KeystreamByte(k, v, i))])

RECURSIVE FoldedByte(_, _)
\* The sum of the bytes of ct at positions i, i + 13, i + 26, ...
FoldedByte(ct, i) ==
  IF i > Len(ct) THEN 0 ELSE ct[i] + FoldedByte(ct, i + 13)

GcmTag(key, iv, ct) ==
  LET raw == <<Digest(key), Digest(iv), Len(ct) % 256>>
             \o SeqOf([j \in 1..13 |-> FoldedByte(ct, j) % 256])
  IN SeqOf([j \in 1..AUTH_TAG_BYTES |-> (raw[j] + 37 * j + 91) % 256])

\* createCipheriv / createDecipheriv throw on a key that is not 32 bytes
\* and on an empty IV.
CipherAccepts(key, iv) == Len(key) = KEY_LENGTH_BYTES /\ Len(iv) >= 1

\* The tag lengths decipher.setAuthTag accepts for GCM when
\* createDecipheriv was given no authTagLength.
TagLengths == {4, 8, 12, 13, 14, 15, 16}

\* A decipher that does not verify the tag.
TagVerifiesAlways(key, iv, ct, tag) == TRUE

\* decipher.final() authenticates: a tag shorter than 16 bytes is compared
\* with the first bytes of the computed tag.
TagVerifies(key, iv, ct, tag) ==
  tag = SubSeq(GcmTag(key, iv, ct), 1, Len(tag))

(***************************************************************************)
(* encryptValue, index.js 69-89.                                           *)
(***************************************************************************)
MSG_EncryptValueKeys == "Encryption Error: Encryption key or IV is missing or invalid. Initialize keys first."
MSG_EncryptionFailed == "Encryption failed for value"
MSG_EncryptKeys == "Encryption Error: encryptJsonObject called, but encryption keys are not configured or are invalid."
MSG_DecryptValueKeys == "Decryption Error: Decryption key or IV is missing or invalid. Initialize keys first."
MSG_DecryptionFailed == "Decryption failed for value"
MSG_DecryptKeys == "Decryption Error: decryptJsonObject called, but encryption keys are not configured or are invalid."
MSG_ConfigMissing == "Configuration Error: ENCRYPTION_KEY and/or ENCRYPTION_IV environment variables are not set. Cannot proceed."
MSG_ConfigProcessing == "Configuration Error processing encryption key/IV"

\* A result that leaves the tag out.
WireStringNoTag(encrypted, authTag) == Base64Encode(encrypted)

\* `${encrypted}.${authTag.toString('base64')}`, index.js 84.
WireString(encrypted, authTag) ==
  Base64Encode(encrypted) \o <<DOT>> \o Base64Encode(authTag)

encryptValue(value, key, iv) ==
  IF key.t = "null" \/ iv.t = "null" THEN Throw(MSG_EncryptValueKeys)
  ELSE LET stringValue == StringOf(value)
           encrypted == GcmCrypt(key.bytes, iv.bytes, Utf8Encode(stringValue))
           authTag == GcmTag(key.bytes, iv.bytes, encrypted)
       IN IF ~CipherAccepts(key.bytes, iv.bytes) THEN Throw(MSG_EncryptionFailed)
          ELSE Str(WireString(encrypted, authTag))

(***************************************************************************)
(* The tree walkers' container steps: data.map(...) of index.js 114 and    *)
(* 216, and the for-in loop of 118-125 and 220-227.  An exception thrown   *)
(* for an element leaves the walker at once: the result is the first       *)
(* element's exception.                                                    *)
(***************************************************************************)
FirstThrow(rs) ==
  rs[CHOOSE i \in 1..Len(rs) :
       IsThrow(rs[i]) /\ \A j \in 1..(i - 1) : ~IsThrow(rs[j])]

\* An array walker that drops the elements that failed.
ArrayOfResultsSkipping(rs) == Arr(SelectSeq(rs, LAMBDA r : ~IsThrow(r)))

ArrayOfResults(rs) ==
  IF \E i \in 1..Len(rs) : IsThrow(rs[i]) THEN FirstThrow(rs) ELSE Arr(rs)

\* An object walker that loses the property names, as Object.values would.
ObjectOfResultsByIndex(ps, rs) ==
  IF \E i \in 1..Len(rs) : IsThrow(rs[i]) THEN FirstThrow(rs)
  ELSE Obj(SeqOf([i \in 1..Len(ps) |-> <<"0", rs[i]>>]))

ObjectOfResults(ps, rs) ==
  IF \E i \in 1..Len(rs) : IsThrow(rs[i]) THEN FirstThrow(rs)
  ELSE Obj(SeqOf([i \in 1..Len(ps) |-> <<ps[i][1], rs[i]>>]))

(***************************************************************************)
(* encryptJsonObject, index.js 99-126.                                     *)
(***************************************************************************)
RECURSIVE encryptJsonObject(_, _, _)
\* An encryptJsonObject that hands every leaf, undefined too, to
\* encryptValue.
encryptJsonObjectAllLeaves(data, key, iv) ==
  IF key.t = "null" \/ iv.t = "null" THEN Throw(MSG_EncryptKeys)
  ELSE IF ~IsContainer(data) THEN encryptValue(data, key, iv)
  ELSE IF data.t = "array" THEN
    ArrayOfResults(SeqOf([i \in 1..Len(data.a) |->
                            encryptJsonObject(data.a[i], key, iv)]))
  ELSE
    ObjectOfResults(data.o, SeqOf([i \in 1..Len(data.o) |->
                                     encryptJsonObject(data.o[i][2], key, iv)]))

encryptJsonObject(data, key, iv) ==
  IF key.t = "null" \/ iv.t = "null" THEN Throw(MSG_EncryptKeys)
  ELSE IF ~IsContainer(data) THEN
    (IF data.t = "undefined" THEN Undefined ELSE encryptValue(data, key, iv))
  ELSE IF data.t = "array" THEN
    ArrayOfResults(SeqOf([i \in 1..Len(data.a) |->
                            encryptJsonObject(data.a[i], key, iv)]))
  ELSE
    ObjectOfResults(data.o, SeqOf([i \in 1..Len(data.o) |->
                                     encryptJsonObject(data.o[i][2], key, iv)]))

(***************************************************************************)
(* decryptValue, index.js 137-187.                                         *)
(***************************************************************************)
\* A type recovery without the number branch.
RecoverTypeNoNumbers(decrypted) ==
  IF decrypted = STR_null THEN Null
  ELSE IF decrypted = STR_true THEN Bool(TRUE)
  ELSE IF decrypted = STR_false THEN Bool(FALSE)
  ELSE Str(decrypted)

\* A type recovery that takes everything isNaN accepts for a number.
RecoverTypeByIsNaN(decrypted) ==
  IF decrypted = STR_null THEN Null
  ELSE IF decrypted = STR_true THEN Bool(TRUE)
  ELSE IF decrypted = STR_false THEN Bool(FALSE)
  ELSE IF ~IsNaNString(decrypted) THEN StringToNumber(decrypted)
  ELSE Str(decrypted)

\* A type recovery that gives a number only when it is finite.
RecoverTypeFinite(decrypted) ==
  IF decrypted = STR_null THEN Null
  ELSE IF decrypted = STR_true THEN Bool(TRUE)
  ELSE IF decrypted = STR_false THEN Bool(FALSE)
  ELSE IF ~IsNaNString(decrypted) /\ ~ParseFloatIsNaN(decrypted)
          /\ Trim(decrypted) # <<>>
          /\ StringToNumber(decrypted).k \in {"finite", "negzero"}
  THEN StringToNumber(decrypted)
  ELSE Str(decrypted)

\* A type recovery that gives every decrypted text back as a string.
RecoverTypeAsString(decrypted) == Str(decrypted)

\* The type recovery of index.js 166-179.
RecoverType(decrypted) ==
  IF decrypted = STR_null THEN Null
  ELSE IF decrypted = STR_true THEN Bool(TRUE)
  ELSE IF decrypted = STR_false THEN Bool(FALSE)
  ELSE IF ~IsNaNString(decrypted) /\ ~ParseFloatIsNaN(decrypted)
          /\ Trim(decrypted) # <<>>
  THEN StringToNumber(decrypted)
  ELSE Str(decrypted)

\* The try block of index.js 156-186 on the two parts of the string.
DecryptParts(encryptedData, authTagBase64, key, iv) ==
  LET authTag == Base64Decode(authTagBase64)
      ct == Base64Decode(encryptedData)
  IN IF ~CipherAccepts(key, iv) THEN Throw(MSG_DecryptionFailed)
     ELSE IF Len(authTag) \notin TagLengths THEN Throw(MSG_DecryptionFailed)
     ELSE IF ~TagVerifies(key, iv, ct, authTag) THEN Throw(MSG_DecryptionFailed)
     ELSE RecoverType(Utf8Decode(GcmCrypt(key, iv, ct)))

\* A decryptValue that splits at the first dot and does not count the parts.
decryptValueFirstDot(encryptedString, key, iv) ==
  IF key.t = "null" \/ iv.t = "null" THEN Throw(MSG_DecryptValueKeys)
  ELSE IF encryptedString.t # "string" THEN encryptedString
  ELSE LET s == encryptedString.s
           dots == IndexesOf(s, DOT)
       IN IF dots = {} THEN encryptedString
          ELSE LET d == CHOOSE i \in dots : \A j \in dots : i <= j
               IN DecryptParts(SubSeq(s, 1, d - 1), SubSeq(s, d + 1, Len(s)),
                               key.bytes, iv.bytes)

decryptValue(encryptedString, key, iv) ==
  IF key.t = "null" \/ iv.t = "null" THEN Throw(MSG_DecryptValueKeys)
  ELSE IF encryptedString.t # "string" THEN encryptedString
  ELSE LET s == encryptedString.s
           dots == IndexesOf(s, DOT)
       IN IF Cardinality(dots) # 1 THEN encryptedString
          ELSE LET d == CHOOSE i \in dots : TRUE
               IN DecryptParts(SubSeq(s, 1, d - 1), SubSeq(s, d + 1, Len(s)),
                               key.bytes, iv.bytes)

(***************************************************************************)
(* decryptJsonObject, index.js 198-228.                                    *)
(***************************************************************************)
RECURSIVE decryptJsonObject(_, _, _)
decryptJsonObject(data, key, iv) ==
  IF key.t = "null" \/ iv.t = "null" THEN Throw(MSG_DecryptKeys)
  ELSE IF ~IsContainer(data) THEN
    (IF data.t = "string" THEN decryptValue(data, key, iv) ELSE data)
  ELSE IF data.t = "array" THEN
    ArrayOfResults(SeqOf([i \in 1..Len(data.a) |->
                            decryptJsonObject(data.a[i], key, iv)]))
  ELSE
    ObjectOfResults(data.o, SeqOf([i \in 1..Len(data.o) |->
                                     decryptJsonObject(data.o[i][2], key, iv)]))

(***************************************************************************)
(* initializeEncryptionKeys, index.js 31-58: the values the module's       *)
(* encryptionKey and encryptionIv hold when the call ends, and what the    *)
(* call throws.  An environment variable is a string or undefined.         *)
(***************************************************************************)
\* !encryptionKeyEnv: undefined or the empty string.
IsFalsyEnv(x) == x.t = "undefined" \/ x.s = <<>>

\* An initialization whose length errors leave what was decoded so far.
InitializedKeysNoReset(encryptionKeyEnv, encryptionIvEnv) ==
  IF IsFalsyEnv(encryptionKeyEnv) \/ IsFalsyEnv(encryptionIvEnv)
  THEN [key |-> Null, iv |-> Null, thrown |-> Throw(MSG_ConfigMissing)]
  ELSE LET k == HexDecode(encryptionKeyEnv.s)
           v == HexDecode(encryptionIvEnv.s)
       IN IF Len(k) # KEY_LENGTH_BYTES
          THEN [key |-> Buffer(k), iv |-> Null,
                thrown |-> Throw(MSG_ConfigProcessing)]
          ELSE IF Len(v) # IV_LENGTH_BYTES
          THEN [key |-> Buffer(k), iv |-> Buffer(v),
                thrown |-> Throw(MSG_ConfigProcessing)]
          ELSE [key |-> Buffer(k), iv |-> Buffer(v), thrown |-> Undefined]

\* An initialization that clears the keys and returns when a variable is
\* missing.
InitializedKeysQuiet(encryptionKeyEnv, encryptionIvEnv) ==
  IF IsFalsyEnv(encryptionKeyEnv) \/ IsFalsyEnv(encryptionIvEnv)
  THEN [key |-> Null, iv |-> Null, thrown |-> Undefined]
  ELSE LET k == HexDecode(encryptionKeyEnv.s)
           v == HexDecode(encryptionIvEnv.s)
       IN IF Len(k) # KEY_LENGTH_BYTES \/ Len(v) # IV_LENGTH_BYTES
          THEN [key |-> Null, iv |-> Null,
                thrown |-> Throw(MSG_ConfigProcessing)]
          ELSE [key |-> Buffer(k), iv |-> Buffer(v), thrown |-> Undefined]

InitializedKeys(encryptionKeyEnv, encryptionIvEnv) ==
  IF IsFalsyEnv(encryptionKeyEnv) \/ IsFalsyEnv(encryptionIvEnv)
  THEN [key |-> Null, iv |-> Null, thrown |-> Throw(MSG_ConfigMissing)]
  ELSE LET k == HexDecode(encryptionKeyEnv.s)
           v == HexDecode(encryptionIvEnv.s)
       IN IF Len(k) # KEY_LENGTH_BYTES \/ Len(v) # IV_LENGTH_BYTES
          THEN [key |-> Null, iv |-> Null,
                thrown |-> Throw(MSG_ConfigProcessing)]
          ELSE [key |-> Buffer(k), iv |-> Buffer(v), thrown |-> Undefined]

(***************************************************************************)
(* The inputs of the model.                                                *)
(***************************************************************************)
\* Values of process.env.ENCRYPTION_KEY: unset, empty, 64 hex digits (two
\* keys), 63 hex digits, 64 characters that are no hex digits, 64 hex digits
\* followed by "zz", 65 hex digits.
KeyEnvs ==
  {Undefined, Str(<<>>), Str(Rep(97, 2 * KEY_LENGTH_BYTES)),
   Str(Rep(98, 2 * KEY_LENGTH_BYTES)), Str(Rep(97, 2 * KEY_LENGTH_BYTES - 1)),
   Str(Rep(122, 2 * KEY_LENGTH_BYTES)),
   Str(Rep(97, 2 * KEY_LENGTH_BYTES) \o <<122, 122>>),
   Str(Rep(97, 2 * KEY_LENGTH_BYTES + 1))}

\* Values of process.env.ENCRYPTION_IV: unset, empty, 32 hex digits (two
\* IVs), 31 hex digits, 32 hex digits followed by "z".
IvEnvs ==
  {Undefined, Str(<<>>), Str(Rep(97, 2 * IV_LENGTH_BYTES)),
   Str(Rep(98, 2 * IV_LENGTH_BYTES)), Str(Rep(97, 2 * IV_LENGTH_BYTES - 1)),
   Str(Rep(97, 2 * IV_LENGTH_BYTES) \o <<122>>)}

\* The environments of the lifecycle specification: a variable is unset or
\* holds well-formed hex.
LifeKeyEnvs ==
  {Str(<<>>), Str(Rep(97, 2 * KEY_LENGTH_BYTES)),
   Str(Rep(98, 2 * KEY_LENGTH_BYTES))}

LifeIvEnvs ==
  {Undefined, Str(Rep(97, 2 * IV_LENGTH_BYTES)),
   Str(Rep(98, 2 * IV_LENGTH_BYTES))}

\* "a", "42", " ", "true", "a.b", "a.b.c" and a lone surrogate.
STR_a == <<97>>
STR_42 == <<52, 50>>
STR_space == <<32>>
STR_a_b == <<97, DOT, 98>>
STR_a_b_c == <<97, DOT, 98, DOT, 99>>
STR_surrogate == <<55296>>

\* The scalars that are encrypted: null, booleans, numbers, strings.
Scalars ==
  {Null, Bool(TRUE), Bool(FALSE),
   Integer(0), Integer(42), Integer(-7), Num("finite", 15, -1),
   NaN, NegZero, Infinity,
   Str(<<>>), Str(STR_space), Str(STR_a), Str(STR_42), Str(STR_true),
   Str(STR_null), Str(STR_a_b), Str(STR_surrogate)}

\* The leaves of the array inputs.
Leaves == {Null, Integer(42), Str(STR_a)}

\* The arrays of at most n leaves.
ArraysUpTo(n) ==
  UNION {{Arr(SeqOf(xs)) : xs \in [1..k -> Leaves]} : k \in 0..n}

\* {}, {name: x}, {name: x, age: y}, and an array that holds an object that
\* holds an array.
Objects ==
  {Obj(<<>>)}
  \cup {Obj(<< <<"name", x>> >>) : x \in {Bool(TRUE), Str(STR_42), Undefined}}
  \cup {Obj(<< <<"name", x>>, <<"list", Arr(<<y, Obj(<< <<"in", Arr(<<x>>)>> >>)>>)>> >>) :
          x \in {Null, Str(STR_a)}, y \in {Integer(42), Str(STR_true)}}

Trees == Scalars \cup {Undefined} \cup ArraysUpTo(MaxArrayLen) \cup Objects

\* Inputs of decryptJsonObject that encryptJsonObject has not produced.
PlainTrees ==
  {Null, Undefined, Bool(FALSE), Integer(42), Str(STR_a), Str(STR_a_b_c),
   Str(STR_a_b), Arr(<<>>), Obj(<<>>),
   Arr(<<Str(STR_a), Str(STR_a_b)>>),
   Obj(<< <<"name", Str(STR_a)>>, <<"age", Integer(42)>>,
          <<"address", Obj(<< <<"city", Str(STR_a_b_c)>> >>)>>,
          <<"tags", Arr(<<Str(STR_a), Undefined>>)>> >>)}

\* What a caller makes of a value out that encryptJsonObject returned: the
\* value itself and, as in __tests__/index.test.js 298-328, the value beside
\* plain values.
HeldInputs(out) ==
  {out,
   Obj(<< <<"plain", Str(STR_a)>>, <<"secret", out>> >>),
   Arr(<<out, Str(STR_a_b)>>)}

\* The strings that differ from the string w in one bit of one character of
\* the part before or the part after the delimiter.
BitFlips(w) ==
  {[w EXCEPT ![p] = FlipBit(w[p], b)] :
     p \in {i \in 1..Len(w) : w[i] # DOT}, b \in 0..MaxFlipBit}

(***************************************************************************)
(* The state: the module's encryptionKey and encryptionIv (index.js        *)
(* 24-25), the last call of an exported function with its argument and     *)
(* what it returned or threw, the outcome of the last call of              *)
(* initializeEncryptionKeys, and the value the caller holds from the last  *)
(* encryptJsonObject call that returned, with the tree and the key         *)
(* material it was made from.                                              *)
(***************************************************************************)
VARIABLES encryptionKey, encryptionIv, call, lastInit, held

vars == <<encryptionKey, encryptionIv, call, lastInit, held>>

Env(keyEnv, ivEnv) == [t |-> "env", key |-> keyEnv, iv |-> ivEnv]

NothingHeld == [src |-> Undefined, out |-> Undefined, key |-> Null, iv |-> Null]

\* An initialization that installs nothing once an initialization has
\* failed.
InitializeCallSticky(keyEnv, ivEnv) ==
  LET r == InitializedKeys(keyEnv, ivEnv)
      stuck == lastInit # "installed"
  IN /\ encryptionKey' = IF stuck THEN Null ELSE r.key
     /\ encryptionIv' = IF stuck THEN Null ELSE r.iv
     /\ call' = [op |-> "initializeEncryptionKeys", arg |-> Env(keyEnv, ivEnv),
                 res |-> r.thrown]
     /\ lastInit' = IF IsThrow(r.thrown) THEN r.thrown.msg ELSE "installed"
     /\ UNCHANGED held

\* An initialization that keeps the installed keys when it fails.
InitializeCallKeeping(keyEnv, ivEnv) ==
  LET r == InitializedKeys(keyEnv, ivEnv)
  IN /\ encryptionKey' = IF IsThrow(r.thrown) THEN encryptionKey ELSE r.key
     /\ encryptionIv' = IF IsThrow(r.thrown) THEN encryptionIv ELSE r.iv
     /\ call' = [op |-> "initializeEncryptionKeys", arg |-> Env(keyEnv, ivEnv),
                 res |-> r.thrown]
     /\ lastInit' = IF IsThrow(r.thrown) THEN r.thrown.msg ELSE "installed"
     /\ UNCHANGED held

\* initializeEncryptionKeys(), index.js 31-58, with process.env as given.
InitializeCall(keyEnv, ivEnv) ==
  LET r == InitializedKeys(keyEnv, ivEnv)
  IN /\ encryptionKey' = r.key
     /\ encryptionIv' = r.iv
     /\ call' = [op |-> "initializeEncryptionKeys", arg |-> Env(keyEnv, ivEnv),
                 res |-> r.thrown]
     /\ lastInit' = IF IsThrow(r.thrown) THEN r.thrown.msg ELSE "installed"
     /\ UNCHANGED held

\* An encryption that clears the keys once it has used them.
EncryptCallClearing(data) ==
  LET r == encryptJsonObject(data, encryptionKey, encryptionIv)
  IN /\ call' = [op |-> "encryptJsonObject", arg |-> data, res |-> r]
     /\ held' = IF IsThrow(r) THEN held
                ELSE [src |-> data, out |-> r, key |-> encryptionKey,
                      iv |-> encryptionIv]
     /\ encryptionKey' = Null
     /\ encryptionIv' = Null
     /\ UNCHANGED lastInit

\* encryptJsonObject(data), index.js 99-126.
EncryptCall(data) ==
  LET r == encryptJsonObject(data, encryptionKey, encryptionIv)
  IN /\ call' = [op |-> "encryptJsonObject", arg |-> data, res |-> r]
     /\ held' = IF IsThrow(r) THEN held
                ELSE [src |-> data, out |-> r, key |-> encryptionKey,
                      iv |-> encryptionIv]
     /\ UNCHANGED <<encryptionKey, encryptionIv, lastInit>>

\* A decryption that clears the keys when it throws.
DecryptCallForgetting(data) ==
  LET r == decryptJsonObject(data, encryptionKey, encryptionIv)
  IN /\ call' = [op |-> "decryptJsonObject", arg |-> data, res |-> r]
     /\ encryptionKey' = IF IsThrow(r) THEN Null ELSE encryptionKey
     /\ encryptionIv' = IF IsThrow(r) THEN Null ELSE encryptionIv
     /\ UNCHANGED <<lastInit, held>>

\* decryptJsonObject(data), index.js 198-228.
DecryptCall(data) ==
  LET r == decryptJsonObject(data, encryptionKey, encryptionIv)
  IN /\ call' = [op |-> "decryptJsonObject", arg |-> data, res |-> r]
     /\ UNCHANGED <<encryptionKey, encryptionIv, lastInit, held>>

\* The module is loaded with the environment set: the call of index.js 231
\* returned.
InitWith(keyEnvs, ivEnvs) ==
  \E k \in keyEnvs, v \in ivEnvs :
    LET r == InitializedKeys(k, v)
    IN /\ ~IsThrow(r.thrown)
       /\ encryptionKey = r.key
       /\ encryptionIv = r.iv
       /\ call = [op |-> "initializeEncryptionKeys", arg |-> Env(k, v),
                  res |-> r.thrown]
       /\ lastInit = "installed"
       /\ held = NothingHeld

(***************************************************************************)
(* The lifecycle specification.  A caller initializes the keys again,      *)
(* encrypts a tree and keeps what is returned, and decrypts what it holds  *)
(* or a plain tree.  encryptJsonObject and decryptJsonObject read nothing  *)
(* but their argument and the keys, so trees are encrypted and plain trees *)
(* are decrypted only while the caller holds nothing: with a value held    *)
(* the calls would return the same.                                        *)
(***************************************************************************)
Init == InitWith(LifeKeyEnvs, LifeIvEnvs)

Initialize == \E k \in LifeKeyEnvs, v \in LifeIvEnvs : InitializeCall(k, v)

Encrypt ==
  /\ held = NothingHeld
  /\ \E data \in Trees : EncryptCall(data)

DecryptHeld ==
  /\ held # NothingHeld
  /\ \E data \in HeldInputs(held.out) : DecryptCall(data)

DecryptPlain ==
  /\ held = NothingHeld
  /\ \E data \in PlainTrees : DecryptCall(data)

Next == Initialize \/ Encrypt \/ DecryptHeld \/ DecryptPlain

Spec == Init /\ [][Next]_vars

(***************************************************************************)
(* The configuration specification: initializeEncryptionKeys with every    *)
(* environment of KeyEnvs and IvEnvs, and calls on a few values.           *)
(***************************************************************************)
ConfigTrees == {Undefined, Integer(42), Arr(<<Str(STR_a)>>)}

InitConfig == InitWith(KeyEnvs, IvEnvs)

InitializeConfig == \E k \in KeyEnvs, v \in IvEnvs : InitializeCall(k, v)

EncryptConfig == \E data \in ConfigTrees : EncryptCall(data)

DecryptConfig ==
  \E data \in ConfigTrees \cup HeldInputs(held.out) : DecryptCall(data)

NextConfig == InitializeConfig \/ EncryptConfig \/ DecryptConfig

SpecConfig == InitConfig /\ [][NextConfig]_vars

(***************************************************************************)
(* The tampering specification: a scalar is encrypted, one bit of the      *)
(* wire string returned is flipped, and the result is decrypted with the   *)
(* same keys installed.                                                    *)
(***************************************************************************)
EncryptScalar ==
  /\ call.op = "initializeEncryptionKeys"
  /\ \E data \in Scalars : EncryptCall(data)

DecryptTampered ==
  /\ call.op = "encryptJsonObject"
  /\ \E w \in BitFlips(held.out.s) : DecryptCall(Str(w))

NextTamper == EncryptScalar \/ DecryptTampered

SpecTamper == Init /\ [][NextTamper]_vars

(***************************************************************************)
(* The recovery specification: a scalar is encrypted and what was returned *)
(* is decrypted with the same keys installed, or a string that no          *)
(* encryption returned is decrypted.                                       *)
(***************************************************************************)
\* " 42 ", "0x1A", "-1.50", "1e2", ".5", "-0", "Infinity", "-Infinity",
\* "NaN", "12a", "false" and two spaces.
RecoveryTexts ==
  {<<32, 52, 50, 32>>, <<48, 120, 49, 65>>, <<45, 49, 46, 53, 48>>,
   <<49, 101, 50>>, <<46, 53>>, <<45, 48>>, STR_Infinity,
   <<45>> \o STR_Infinity, STR_NaN, <<49, 50, 97>>, STR_false, <<32, 32>>}

RecoveryScalars == Scalars \cup {NegInfinity} \cup {Str(s) : s \in RecoveryTexts}

\* "abc.", ".abc", ".", "a.b" and "abc".
GateStrings ==
  {Str(<<97, 98, 99, DOT>>), Str(<<DOT, 97, 98, 99>>), Str(<<DOT>>),
   Str(STR_a_b), Str(<<97, 98, 99>>)}

EncryptText ==
  /\ call.op = "initializeEncryptionKeys"
  /\ \E data \in RecoveryScalars : EncryptCall(data)

DecryptText ==
  /\ call.op = "encryptJsonObject"
  /\ DecryptCall(held.out)

DecryptGate ==
  /\ call.op = "initializeEncryptionKeys"
  /\ \E data \in GateStrings : DecryptCall(data)

NextRecover == EncryptText \/ DecryptText \/ DecryptGate

SpecRecover == Init /\ [][NextRecover]_vars

(***************************************************************************)
(* The restart specification, after __tests__/index.test.js 173-187 and    *)
(* 331-347: a tree is encrypted, an initialization finds a variable        *)
(* missing and fails, the next one finds the environment the tree was      *)
(* encrypted under, and what was returned is decrypted.                    *)
(***************************************************************************)
EncryptFirst ==
  /\ call.op = "initializeEncryptionKeys"
  /\ held = NothingHeld
  /\ \E data \in Trees : EncryptCall(data)

\* The environments with a variable missing, and those that hold the hex of
\* the key and the IV e.
MissingEnvs ==
  {e \in LifeKeyEnvs \X LifeIvEnvs : IsFalsyEnv(e[1]) \/ IsFalsyEnv(e[2])}

EnvsOf(key, iv) ==
  {e \in (LifeKeyEnvs \X LifeIvEnvs) \ MissingEnvs :
     Buffer(HexDecode(e[1].s)) = key /\ Buffer(HexDecode(e[2].s)) = iv}

FailInitialize ==
  /\ call.op = "encryptJsonObject"
  /\ \E e \in MissingEnvs : InitializeCall(e[1], e[2])

Reinitialize ==
  /\ lastInit = MSG_ConfigMissing
  /\ \E e \in EnvsOf(held.key, held.iv) : InitializeCall(e[1], e[2])

DecryptAfter ==
  /\ call.op = "initializeEncryptionKeys"
  /\ lastInit = "installed"
  /\ held # NothingHeld
  /\ DecryptCall(held.out)

NextRestart == EncryptFirst \/ FailInitialize \/ Reinitialize \/ DecryptAfter

SpecRestart == Init /\ [][NextRestart]_vars

(***************************************************************************)
(* Vocabulary of the properties.                                           *)
(***************************************************************************)
IsScalar(x) == x.t \in {"null", "boolean", "number", "string"}

KeysInstalled == encryptionKey.t = "buffer" /\ encryptionIv.t = "buffer"

RECURSIVE LeavesOf(_)
\* The values at the leaves of a tree.
LeavesOf(x) ==
  IF x.t = "array" THEN UNION {LeavesOf(x.a[i]) : i \in 1..Len(x.a)}
  ELSE IF x.t = "object" THEN UNION {LeavesOf(x.o[i][2]) : i \in 1..Len(x.o)}
  ELSE {x}

\* The caller holds a value, and the keys it was made with are installed.
HeldWithSameKeys ==
  /\ held # NothingHeld
  /\ held.key = encryptionKey
  /\ held.iv = encryptionIv

\* The last call decrypted what the last encryption returned, with the
\* same keys installed.
RoundTripCall ==
  /\ call.op = "decryptJsonObject"
  /\ HeldWithSameKeys
  /\ call.arg = held.out

\* A string that holds no lone surrogate (the model has no surrogate pair).
WellFormed(s) == \A i \in 1..Len(s) : ~IsSurrogate(s[i])

\* Number(s) is a number and s is not blank.
ReadsAsNumber(s) == StringToNumber(s) # NaN /\ Trim(s) # <<>>

\* A leaf the type recovery gives back as it was.
Recoverable(x) ==
  \/ x.t \in {"null", "boolean"}
  \/ x.t = "number" /\ x \notin {NaN, NegZero}
  \/ /\ x.t = "string"
     /\ WellFormed(x.s)
     /\ x.s \notin {STR_null, STR_true, STR_false}
     /\ ~ReadsAsNumber(x.s)

RECURSIVE ShapePreserved(_, _)
\* e has the containers, keys and lengths of t, and a string with a dot that
\* differs from the leaf wherever t has a null, boolean, number or string.
ShapePreserved(t, e) ==
  IF t.t = "array"
  THEN /\ e.t = "array"
       /\ Len(e.a) = Len(t.a)
       /\ \A i \in 1..Len(t.a) : ShapePreserved(t.a[i], e.a[i])
  ELSE IF t.t = "object"
  THEN /\ e.t = "object"
       /\ Len(e.o) = Len(t.o)
       /\ \A i \in 1..Len(t.o) :
            /\ e.o[i][1] = t.o[i][1]
            /\ ShapePreserved(t.o[i][2], e.o[i][2])
  ELSE IF IsScalar(t)
  THEN /\ e.t = "string"
       /\ IndexesOf(e.s, DOT) # {}
       /\ e # t
  ELSE ~IsContainer(e)

IsBitFlip(w, v) ==
  /\ Len(w) = Len(v)
  /\ \E i \in 1..Len(w) :
       /\ w[i] # DOT
       /\ \E b \in 0..MaxFlipBit : v[i] = FlipBit(w[i], b)
       /\ \A j \in 1..Len(w) : j # i => v[j] = w[j]

\* The last call decrypted, under the keys it was made with, the encrypted
\* string the caller holds with one bit flipped.
TamperedCall ==
  /\ call.op = "decryptJsonObject"
  /\ HeldWithSameKeys
  /\ held.out.t = "string"
  /\ call.arg.t = "string"
  /\ IsBitFlip(held.out.s, call.arg.s)

\* C3: decrypting, under the same key and IV, an encrypted string with a
\* single bit flipped in the part before or the part after the delimiter
\* fails with a decryption error; it never returns a value.
C3_TamperDetected == TamperedCall => IsThrow(call.res)

\* The flipped string came back as the value that had been encrypted.
C3_Undetected == TamperedCall /\ call.res = held.src

\* The flipped string came back as it was handed in.
C3_Unchanged == TamperedCall /\ call.res = call.arg

\* Not shaped like an encrypted value: no string, or a string whose number
\* of dots is not one.
NotWireShaped(x) ==
  x.t # "string" \/ Cardinality(IndexesOf(x.s, DOT)) # 1

IsHexOfLength(x, n) ==
  /\ x.t = "string"
  /\ Len(x.s) = n
  /\ \A i \in 1..n : IsHexDigit(x.s[i])

\* C5: initialization fails with a configuration error whenever the key or
\* the IV is missing or empty, is not valid hexadecimal, or is not the hex
\* of its byte length: 64 hex characters for the 32 bytes of the key, 32 hex
\* characters for the 16 bytes of the IV.
C5_ConfigurationValidated ==
  (/\ call.op = "initializeEncryptionKeys"
   /\ \/ ~IsHexOfLength(call.arg.key, 2 * KEY_LENGTH_BYTES)
      \/ ~IsHexOfLength(call.arg.iv, 2 * IV_LENGTH_BYTES))
    => IsThrow(call.res) /\ ~KeysInstalled

OnItsOwn(x) ==
  IF call.op = "encryptJsonObject"
  THEN encryptJsonObject(x, encryptionKey, encryptionIv)
  ELSE decryptJsonObject(x, encryptionKey, encryptionIv)

OtherKeysCall ==
  /\ call.op = "decryptJsonObject"
  /\ held # NothingHeld
  /\ held.out.t = "string"
  /\ call.arg = held.out
  /\ KeysInstalled
  /\ held.key # encryptionKey \/ held.iv # encryptionIv

ScalarEncrypted ==
  /\ call.op = "encryptJsonObject"
  /\ KeysInstalled
  /\ IsScalar(call.arg)

\* The part of w before its first dot and the part after it.
CiphertextSegment(w) ==
  SubSeq(w, 1, (CHOOSE i \in IndexesOf(w, DOT) : TRUE) - 1)

TagSegment(w) ==
  SubSeq(w, (CHOOSE i \in IndexesOf(w, DOT) : TRUE) + 1, Len(w))

\* C9 as stated: the encrypted form of a scalar is a string with exactly
\* one dot; the part before it is the base64 of the ciphertext, the part
\* after it the base64 of the tag, and both parts are non-empty.
C9_WireFormat ==
  ScalarEncrypted
    => /\ call.res.t = "string"
       /\ Cardinality(IndexesOf(call.res.s, DOT)) = 1
       /\ IsCanonicalBase64(CiphertextSegment(call.res.s))
       /\ IsCanonicalBase64(TagSegment(call.res.s))
       /\ CiphertextSegment(call.res.s) # <<>>
       /\ TagSegment(call.res.s) # <<>>

\* C9, amended: the encrypted form of a scalar is a string with exactly one
\* dot; the part after it is the base64 of the 16 bytes of the tag, the
\* part before it the base64 of as many ciphertext bytes as the UTF-8 of
\* String(value) has, so it is empty exactly for the empty string.
C9_WireFormatSized ==
  ScalarEncrypted
    => /\ call.res.t = "string"
       /\ Cardinality(IndexesOf(call.res.s, DOT)) = 1
       /\ IsCanonicalBase64(CiphertextSegment(call.res.s))
       /\ IsCanonicalBase64(TagSegment(call.res.s))
       /\ Len(Base64Decode(TagSegment(call.res.s))) = AUTH_TAG_BYTES
       /\ Len(Base64Decode(CiphertextSegment(call.res.s)))
            = Len(Utf8Encode(StringOf(call.arg)))
       /\ CiphertextSegment(call.res.s) = <<>> <=> call.arg = Str(<<>>)

\* The empty string was encrypted: nothing stands before the dot.
C9_Witness ==
  /\ ScalarEncrypted
  /\ call.arg = Str(<<>>)
  /\ CiphertextSegment(call.res.s) = <<>>
  /\ Len(TagSegment(call.res.s)) = 24

\* C10 as stated: once key and IV are installed they are never changed;
\* there is no way to initialize again.
C10_KeysNeverChange ==
  [][KeysInstalled => UNCHANGED <<encryptionKey, encryptionIv>>]_vars

\* C10, amended: encryptJsonObject and decryptJsonObject never change or
\* clear the key and the IV; they change only in a call of
\* initializeEncryptionKeys, which installs what the environment holds then
\* or clears both.
C10_OnlyInitializeChangesKeys ==
  [][(encryptionKey' # encryptionKey \/ encryptionIv' # encryptionIv)
       => call'.op = "initializeEncryptionKeys"]_vars

\* A value was encrypted, and a call of initializeEncryptionKeys then
\* installed another key.
C10_Witness ==
  /\ call.op = "initializeEncryptionKeys"
  /\ held # NothingHeld
  /\ KeysInstalled
  /\ held.key # encryptionKey

\* The value a text reads as: null, a boolean, or the number Number() gives.
ReadValue(s) ==
  IF s = STR_null THEN Null
  ELSE IF s = STR_true THEN Bool(TRUE)
  ELSE IF s = STR_false THEN Bool(FALSE)
  ELSE StringToNumber(s)

ReadsAsOtherType(s) == s \in {STR_null, STR_true, STR_false} \/ ReadsAsNumber(s)

\* C11: a string that reads as "null", "true", "false" or a numeric literal
\* comes back from encryption and decryption as that null, boolean or
\* number, not as the string; the encrypted string "42" and the encrypted
\* number 42 decrypt to the same number.
C11_LossyRoundTrip ==
  (RoundTripCall /\ held.src.t = "string" /\ ReadsAsOtherType(held.src.s))
    => /\ call.res = ReadValue(held.src.s)
       /\ call.res.t \in {"null", "boolean", "number"}
       /\ held.src.s = STR_42 =>
            call.res = decryptJsonObject(
                         encryptJsonObject(Integer(42), encryptionKey, encryptionIv),
                         encryptionKey, encryptionIv)

\* The string "42" was encrypted and decrypted, and the number 42 came
\* back.
C11_Witness ==
  /\ RoundTripCall
  /\ held.src = Str(STR_42)
  /\ call.res = Integer(42)

\* The last call was an initialization that found ENCRYPTION_KEY or
\* ENCRYPTION_IV unset or empty.
InitializedWithMissing ==
  /\ call.op = "initializeEncryptionKeys"
  /\ IsFalsyEnv(call.arg.key) \/ IsFalsyEnv(call.arg.iv)

RecoveredText == Utf8Decode(Utf8Encode(StringOf(held.src)))

\* The trimmed text is a numeric literal.
IsNumericText(t) == Trim(t) # <<>> /\ StringToNumber(Trim(t)) # NaN

\* C13: the recovered text t is mapped in this order: "null" gives null,
\* "true" and "false" give the boolean, otherwise a t whose whole trimmed
\* text is a numeric literal gives the number, otherwise t comes back as a
\* string; empty and whitespace-only text comes back as the same string,
\* never as the number 0.
C13_RecoveryPriority ==
  (RoundTripCall /\ IsScalar(held.src))
    => /\ call.res =
            IF RecoveredText = STR_null THEN Null
            ELSE IF RecoveredText = STR_true THEN Bool(TRUE)
            ELSE IF RecoveredText = STR_false THEN Bool(FALSE)
            ELSE IF IsNumericText(RecoveredText)
                 THEN StringToNumber(Trim(RecoveredText))
            ELSE Str(RecoveredText)
       /\ Trim(RecoveredText) = <<>>
            => call.res = held.src /\ call.res # Integer(0)

\* A string of one space was encrypted and decrypted and came back.
C13_Witness ==
  /\ RoundTripCall
  /\ held.src = Str(STR_space)
  /\ call.res = Str(STR_space)

IsFiniteNumber(x) == x.t = "number" /\ x.k \in {"finite", "negzero"}

STR_NegInfinity == <<45>> \o STR_Infinity

\* A scalar was encrypted and decrypted, and its text is none of "null",
\* "true" and "false".
TextRecovered ==
  /\ RoundTripCall
  /\ IsScalar(held.src)
  /\ RecoveredText \notin {STR_null, STR_true, STR_false}

\* C14 as stated: a recovered text that is no finite numeric literal
\* ("Infinity", "-Infinity", "NaN", text with other characters) comes back
\* as a string, so type recovery never gives a number that is not finite.
C14_OnlyFiniteNumbers ==
  TextRecovered
    => /\ call.res.t = "number" => IsFiniteNumber(call.res)
       /\ ~IsFiniteNumber(StringToNumber(RecoveredText))
            => call.res = Str(RecoveredText)

\* C14, amended: a recovered text that Number() does not read as a number
\* ("NaN", text with other characters) comes back as a string, so type
\* recovery never gives NaN; "Infinity" and "-Infinity" come back as the
\* numbers Infinity and -Infinity.
C14_NumbersReadByNumber ==
  TextRecovered
    => /\ call.res # NaN
       /\ StringToNumber(RecoveredText) = NaN => call.res = Str(RecoveredText)
       /\ RecoveredText = STR_Infinity => call.res = Infinity
       /\ RecoveredText = STR_NegInfinity => call.res = NegInfinity

\* The string "Infinity" was encrypted and decrypted and came back as the
\* number.
C14_Witness ==
  /\ TextRecovered
  /\ held.src = Str(STR_Infinity)
  /\ call.res = Infinity

\* The last call decrypted, with the keys installed, a string with exactly
\* one dot and nothing before it or nothing after it.
EmptySegmentCall ==
  /\ call.op = "decryptJsonObject"
  /\ KeysInstalled
  /\ call.arg.t = "string"
  /\ Cardinality(IndexesOf(call.arg.s, DOT)) = 1
  /\ \/ CiphertextSegment(call.arg.s) = <<>>
     \/ TagSegment(call.arg.s) = <<>>

\* C15: a string with exactly one dot whose part before or after the dot is
\* empty ("abc.", ".abc", ".") is taken for plaintext: decryption returns
\* it unchanged and raises no decryption error.
C15_EmptySegmentUnchanged == EmptySegmentCall => call.res = call.arg

\* Decrypting "abc." raised the decryption error.
C15_Raised ==
  /\ EmptySegmentCall
  /\ call.arg = Str(<<97, 98, 99, DOT>>)
  /\ call.res = Throw(MSG_DecryptionFailed)

\* A wire string: a string with exactly one dot and a tag of 24 characters
\* after it.
IsWireString(x) ==
  /\ x.t = "string"
  /\ Cardinality(IndexesOf(x.s, DOT)) = 1
  /\ Len(TagSegment(x.s)) = 24

RECURSIVE LeavesDispatched(_, _)
\* e holds undefined where t holds undefined and a wire string where t
\* holds any other leaf.
LeavesDispatched(t, e) ==
  IF t.t = "array"
  THEN /\ e.t = "array"
       /\ Len(e.a) = Len(t.a)
       /\ \A i \in 1..Len(t.a) : LeavesDispatched(t.a[i], e.a[i])
  ELSE IF t.t = "object"
  THEN /\ e.t = "object"
       /\ Len(e.o) = Len(t.o)
       /\ \A i \in 1..Len(t.o) : LeavesDispatched(t.o[i][2], e.o[i][2])
  ELSE IF t.t = "undefined" THEN e = Undefined
  ELSE IsWireString(e)

\* C16: with the keys installed, encryptJsonObject returns undefined for
\* undefined, at the top and inside containers, and a wire string for every
\* other leaf, null included.
C16_LeafDispatch ==
  (call.op = "encryptJsonObject" /\ KeysInstalled)
    => LeavesDispatched(call.arg, call.res)

\* An object whose one property is undefined was encrypted and came back
\* with the property undefined.
C16_Witness ==
  /\ call.op = "encryptJsonObject"
  /\ KeysInstalled
  /\ call.arg = Obj(<< <<"name", Undefined>> >>)
  /\ call.res = call.arg

\* The last call decrypted what the caller holds, after an initialization
\* that failed and one that found the first environment again.
DecryptedAfterRestart ==
  /\ call.op = "decryptJsonObject"
  /\ held # NothingHeld
  /\ call.arg = held.out

ResultAlone(op, arg, key, iv) ==
  IF op = "encryptJsonObject" THEN encryptJsonObject(arg, key, iv)
  ELSE decryptJsonObject(arg, key, iv)

ComparedScalars == Scalars \cup {Str(<<65533>>)}

\* What encrypting the scalar v gives under the installed key and IV.
WireOf(v) == encryptJsonObject(v, encryptionKey, encryptionIv)

\* The elements of an encrypted array of leaves with the same canonical
\* text have the same wire string.
SameTextSameWire ==
  (call.arg.t = "array" /\ \A i \in 1..Len(call.arg.a) : IsScalar(call.arg.a[i]))
    => \A i, j \in 1..Len(call.arg.a) :
         StringOf(call.arg.a[i]) = StringOf(call.arg.a[j])
           => call.res.a[i] = call.res.a[j]

\* C19 as stated: under one key and IV the wire string of a scalar depends
\* only on String(value): the same scalar gives the same wire string in one
\* call and across calls, two scalars have the same wire string exactly
\* when their canonical texts are equal, and the number 42 and the string
\* "42" have the same wire string.
C19_Deterministic ==
  (call.op = "encryptJsonObject" /\ KeysInstalled)
    => /\ SameTextSameWire
       /\ IsScalar(call.arg) =>
            /\ call.res = WireOf(call.arg)
            /\ \A v \in ComparedScalars :
                 WireOf(v) = call.res <=> StringOf(v) = StringOf(call.arg)
            /\ WireOf(Integer(42)) = WireOf(Str(STR_42))

\* C19, amended: two scalars have the same wire string exactly when the
\* UTF-8 encodings of their canonical texts are equal, which they are for
\* equal texts and for texts that differ only in lone surrogates, each
\* encoded as U+FFFD.
C19_DeterministicUtf8 ==
  (call.op = "encryptJsonObject" /\ KeysInstalled)
    => /\ SameTextSameWire
       /\ IsScalar(call.arg) =>
            /\ call.res = WireOf(call.arg)
            /\ \A v \in ComparedScalars :
                 /\ WireOf(v) = call.res
                      <=> Utf8Encode(StringOf(v)) = Utf8Encode(StringOf(call.arg))
                 /\ StringOf(v) = StringOf(call.arg) => WireOf(v) = call.res
            /\ WireOf(Integer(42)) = WireOf(Str(STR_42))

\* The number 42 was encrypted to the wire string of the string "42",
\* which is not that of the string "a".
C19_Witness ==
  /\ call.op = "encryptJsonObject"
  /\ KeysInstalled
  /\ call.arg = Integer(42)
  /\ call.res = WireOf(Str(STR_42))
  /\ call.res # WireOf(Str(STR_a))

\* C20: after every initializeEncryptionKeys call, returned or thrown, key
\* and IV are both null or the key has 32 bytes and the IV 16; no
\* encryptJsonObject or decryptJsonObject call sees one of them set alone
\* or a buffer of another length.
C20_KeyState ==
  /\ \/ encryptionKey = Null /\ encryptionIv = Null
     \/ /\ encryptionKey.t = "buffer"
        /\ Len(encryptionKey.bytes) = KEY_LENGTH_BYTES
        /\ encryptionIv.t = "buffer"
        /\ Len(encryptionIv.bytes) = IV_LENGTH_BYTES
  /\ call.op = "initializeEncryptionKeys"
       => (IsThrow(call.res) <=> encryptionKey = Null)

\* With a key of 64 hex digits and an IV of 31 hex digits in the
\* environment, the initialization threw and key and IV are null.
C20_Witness ==
  /\ call.op = "initializeEncryptionKeys"
  /\ call.arg.key = Str(Rep(97, 2 * KEY_LENGTH_BYTES))
  /\ call.arg.iv = Str(Rep(97, 2 * IV_LENGTH_BYTES - 1))
  /\ call.res = Throw(MSG_ConfigProcessing)
  /\ encryptionKey = Null
  /\ encryptionIv = Null
====
